---- MODULE Spec2Model ----
(***************************************************************************)
(* Beta-reader access and feedback workflow of lyra-backend                *)
(* (routes/readers.js, kept in                                             *)
(* src/controllers/authController-didntSaveButItsWorkingRight.js from line *)
(* 183 on, and the tables of src/migrations/015_reader_feedback_system.sql)*)
(*                                                                         *)
(* The relational store is the state: the rows of projects,                *)
(* reader_invitations, reader_sessions and reader_markers.  Every request  *)
(* handler is one action that runs all of its statements at one instant    *)
(* `now` (requests do not overlap in these specifications).  The response  *)
(* of the last request is kept in `resp`.                                  *)
(***************************************************************************)
EXTENDS Integers, Sequences, FiniteSets, TLC

VARIABLES
    now,          \* the clock read by NOW() and new Date()
    projects,     \* projects: project_id -> [user_id, has_chapters, chapters]
    invitations,  \* reader_invitations: sequence of rows, id = position
    sessions,     \* reader_sessions: sequence of rows, id = position
    markers,      \* reader_markers: set of rows, each with its own id
    markerSeq,    \* number of reader_markers rows inserted so far
    resp,         \* the response of the last request
    inflight      \* handlers suspended at an await: request -> its locals

vars == <<now, projects, invitations, sessions, markers, markerSeq, resp, inflight>>

(***************************************************************************)
(* Bounds of the model.                                                    *)
(***************************************************************************)
MaxTime == 1
MaxInv == 1
MaxMarkers == 1
MaxChapters == 4
MaxQuotaRows == 16
MaxRequests == 2
MaxBatch == 2
MaxBatchRows == 3
MaxCircleRows == 2
MaxReaders == 2
MaxNotes == 2

(***************************************************************************)
(* Program constants.                                                      *)
(***************************************************************************)
\* "if (currentActive + readers.length > 15)"
MaxActiveReaders == 15

\* SQL NULL in a timestamp column (accepted_at, last_activity_at, imported_at)
NULL == -1

(***************************************************************************)
(* Values the requests draw their inputs from.                             *)
(***************************************************************************)
Users == {"u1", "u2"}
ProjectIds == {"p1", "p2"}

\* Access tokens are numbered; there is always one more than the rows of Spec,
\* so that a request can also carry a token no invitation has.
Tokens == 1..(MaxInv + 1)

\* A response: the handler, the HTTP status, the error it
\* names ("" on success) and the body it sends.
Resp(op, status, error, body) ==
    [op |-> op, status |-> status, error |-> error, body |-> body,
     sent |-> <<>>]

\* The same, for a handler that called sendReaderInvitation: `sent` lists the
\* access tokens of the emails the gateway accepted, in order.
RespMail(op, status, error, body, sent) ==
    [op |-> op, status |-> status, error |-> error, body |-> body,
     sent |-> sent]

NoBody == [empty |-> TRUE]

NoResp == Resp("none", 0, "", NoBody)

\* A membership test that every id passes
IncludesAnything(list, x) == TRUE

\* Array.prototype.includes on a list of chapter ids
Includes(list, x) == \E i \in 1..Len(list) : list[i] = x

\* rows[0] of a SELECT that returned at least one row
FirstId(ids) == CHOOSE i \in ids : \A j \in ids : i <= j

(***************************************************************************)
(* Triggers of migration 015.                                              *)
(***************************************************************************)
\* update_reader_invitations_updated_at / update_reader_markers_updated_at
update_reader_updated_at(row) == [row EXCEPT !.updated_at = now]

\* SELECT ... FROM reader_invitations WHERE access_token = $1
ByToken(token) ==
    {i \in 1..Len(invitations) : invitations[i].access_token = token}

\* SELECT * FROM reader_sessions WHERE invitation_id = $1
SessionsOf(sess, invId) == {i \in 1..Len(sess) : sess[i].invitation_id = invId}

\* A date comparison that also treats the instant of expiry as expired
IsExpiredAtExpiry(inv) == inv.expires_at <= now

\* An expiration check that skips invitations already marked expired
IsExpiredUnlessMarked(inv) == inv.expires_at < now /\ inv.status # "expired"

\* new Date(inv.expires_at) < new Date()
IsExpired(inv) == inv.expires_at < now

\* A revoked check that lets everybody through
IsRevokedNever(inv) == FALSE

\* inv.status === 'revoked'
IsRevoked(inv) == inv.status = "revoked"

\* What a handler leaves behind: the tables and its response
Outcome(invs, sess, ms, mseq, r) ==
    [invitations |-> invs, sessions |-> sess, markers |-> ms, markerSeq |-> mseq,
     resp |-> r]

\* A handler that wrote nothing
ReadOnly(r) == Outcome(invitations, sessions, markers, markerSeq, r)

(***************************************************************************)
(* GET /access/:token  (ResolveAccess)                                     *)
(***************************************************************************)
\* projectData.chapters?.map((ch, index) => ({...ch, chapterNumber: index + 1}))
NumberedChapters(chapters) ==
    [i \in 1..Len(chapters) |-> [id |-> chapters[i], chapterNumber |-> i]]

\* A filter that numbers the chapters after selecting them
FilteredChaptersRenumbered(project, accessible) ==
    IF project.has_chapters
    THEN NumberedChapters(SelectSeq(project.chapters,
                                    LAMBDA id : Includes(accessible, id)))
    ELSE <<>>

\* ...?.filter(ch => accessibleChapters.includes(ch.id)), and "|| []" when
\* project_data has no chapters
FilteredChapters(project, accessible) ==
    IF project.has_chapters
    THEN SelectSeq(NumberedChapters(project.chapters),
                   LAMBDA ch : Includes(accessible, ch.id))
    ELSE <<>>

\* INSERT INTO reader_sessions (invitation_id) VALUES ($1)
NewSession(invId) ==
    [invitation_id |-> invId, last_chapter_id |-> "", completion_percentage |-> 0,
     notes |-> ""]

\* A first-access update that also renews the expiry
AcceptExtending(inv) ==
    update_reader_updated_at(
        [inv EXCEPT !.status = "accepted", !.accepted_at = now,
                    !.expires_at = now + 1])

\* The first-access update: status = 'accepted', accepted_at = NOW()
Accept(inv) ==
    update_reader_updated_at([inv EXCEPT !.status = "accepted", !.accepted_at = now])

\* The expiration update: status = 'expired'
Expire(inv) == update_reader_updated_at([inv EXCEPT !.status = "expired"])

ResolveAccessOut(token) ==
    LET ids == ByToken(token)
    IN  IF ids = {}
        THEN ReadOnly(Resp("ResolveAccess", 404, "NotFound", NoBody))
        ELSE
        LET id == FirstId(ids)
            inv == invitations[id]
        IN  IF IsExpired(inv)
            THEN Outcome([invitations EXCEPT ![id] = Expire(inv)], sessions,
                         markers, markerSeq,
                         Resp("ResolveAccess", 403, "Expired", NoBody))
            ELSE IF IsRevoked(inv)
            THEN ReadOnly(Resp("ResolveAccess", 403, "Forbidden", NoBody))
            ELSE
            LET invs == IF inv.status = "pending"
                        THEN [invitations EXCEPT ![id] = Accept(inv)]
                        ELSE invitations
                found == SessionsOf(sessions, id)
                sess == IF found = {} THEN Append(sessions, NewSession(id))
                        ELSE sessions
                sid == IF found = {} THEN Len(sess) ELSE FirstId(found)
            IN  Outcome(invs, sess, markers, markerSeq,
                    Resp("ResolveAccess", 200, "",
                         [id |-> id, expiresAt |-> inv.expires_at,
                          status |-> inv.status,
                          chapters |-> FilteredChapters(projects[inv.project_id],
                                                        inv.chapters_accessible),
                          session |-> sess[sid]]))

(***************************************************************************)
(* POST /invitations  (CreateInvitations)                                  *)
(***************************************************************************)
\* A count that leaves out the invitations already opened
ActiveCountPendingOnly(invs, project) ==
    Cardinality({i \in 1..Len(invs) :
        /\ invs[i].project_id = project
        /\ invs[i].status = "pending"
        /\ invs[i].expires_at > now})

\* SELECT COUNT(*) ... WHERE project_id = $1 AND status IN ('pending',
\* 'accepted') AND expires_at > NOW()
ActiveCount(invs, project) ==
    Cardinality({i \in 1..Len(invs) :
        /\ invs[i].project_id = project
        /\ invs[i].status \in {"pending", "accepted"}
        /\ invs[i].expires_at > now})

\* A limit check that forgets the readers of the request
OverQuotaIgnoringBatch(currentActive, n) == currentActive > MaxActiveReaders

\* currentActive + readers.length > 15
OverQuota(currentActive, n) == currentActive + n > MaxActiveReaders

\* circleName || `Draft Review - ${new Date().toLocaleDateString(...)}`
\* (every instant of the model falls on the same calendar day)
CircleNameOrDefault(circleName) ==
    IF circleName = "" THEN "Draft Review" ELSE circleName

\* A table without the UNIQUE constraint on access_token
InsertAllowedNoUnique(invs, token, expiresAt) == expiresAt # NULL

\* The constraints of reader_invitations an INSERT can violate:
\* access_token UNIQUE, expires_at NOT NULL
InsertAllowed(invs, token, expiresAt) ==
    /\ \A i \in 1..Len(invs) : invs[i].access_token # token
    /\ expiresAt # NULL

\* The row an INSERT stores, with the column defaults of the table
NewInvitation(project, user, token, chapters, expiresAt, circleName) ==
    [project_id |-> project, user_id |-> user, access_token |-> token,
     chapters_accessible |-> chapters, status |-> "pending",
     accepted_at |-> NULL, expires_at |-> expiresAt, updated_at |-> now,
     last_activity_at |-> NULL, reader_name |-> "reader",
     circle_name |-> CircleNameOrDefault(circleName), archived |-> FALSE]

\* A loop in which a failed email is rethrown like a failed INSERT
RECURSIVE CreateLoopRethrowing(_, _, _, _, _, _)
CreateLoopRethrowing(acc, k, n, toks, fails, row) ==
    IF k > n THEN acc
    ELSE IF ~InsertAllowed(acc.invs, toks[k], row.expires_at)
    THEN [acc EXCEPT !.threw = TRUE]
    ELSE IF k \in fails
    THEN [acc EXCEPT !.invs = Append(acc.invs, [row EXCEPT !.access_token = toks[k]]),
                     !.threw = TRUE]
    ELSE CreateLoopRethrowing(
            [acc EXCEPT !.invs = Append(acc.invs, [row EXCEPT !.access_token = toks[k]]),
                        !.created = Append(acc.created, Len(acc.invs) + 1),
                        !.sent = Append(acc.sent, toks[k])],
            k + 1, n, toks, fails, row)

\* "for (const reader of readers)": reader k gets token toks[k]; its email
\* fails when k \in fails.  acc.threw: an INSERT threw and ended the loop.
RECURSIVE CreateLoop(_, _, _, _, _, _)
CreateLoop(acc, k, n, toks, fails, row) ==
    IF k > n THEN acc
    ELSE IF ~InsertAllowed(acc.invs, toks[k], row.expires_at)
    THEN [acc EXCEPT !.threw = TRUE]
    ELSE CreateLoop(
            [invs |-> Append(acc.invs, [row EXCEPT !.access_token = toks[k]]),
             created |-> Append(acc.created, Len(acc.invs) + 1),
             sent |-> IF k \in fails THEN acc.sent ELSE Append(acc.sent, toks[k]),
             emailErrors |-> IF k \in fails THEN Append(acc.emailErrors, k)
                             ELSE acc.emailErrors,
             threw |-> FALSE],
            k + 1, n, toks, fails, row)

\* A request that runs in a transaction and rolls its rows back on an error
CreateInvitationsRollingBack(user, project, chapters, n, toks, fails, expiresAt, circleName) ==
    IF projects[project].user_id # user
        THEN ReadOnly(Resp("CreateInvitations", 404, "NotFound", NoBody))
        ELSE IF OverQuota(ActiveCount(invitations, project), n)
        THEN ReadOnly(Resp("CreateInvitations", 400, "QuotaExceeded", NoBody))
        ELSE
        LET done == CreateLoop(
                        [invs |-> invitations, created |-> <<>>, sent |-> <<>>,
                         emailErrors |-> <<>>, threw |-> FALSE],
                        1, n, toks, fails,
                        NewInvitation(project, user, 0, chapters, expiresAt,
                                      circleName))
        IN  IF done.threw
            THEN ReadOnly(RespMail("CreateInvitations", 500, "ServerError",
                                   NoBody, done.sent))
            ELSE Outcome(done.invs, sessions, markers, markerSeq,
                         RespMail("CreateInvitations", 201, "",
                                  [invitations |-> done.created,
                                   emailErrors |-> done.emailErrors],
                                  done.sent))

\* router.post('/invitations'): the two checks, the loop and the response
CreateInvitationsOut(user, project, chapters, n, toks, fails, expiresAt, circleName) ==
    IF projects[project].user_id # user
        THEN ReadOnly(Resp("CreateInvitations", 404, "NotFound", NoBody))
        ELSE IF OverQuota(ActiveCount(invitations, project), n)
        THEN ReadOnly(Resp("CreateInvitations", 400, "QuotaExceeded", NoBody))
        ELSE
        LET done == CreateLoop(
                        [invs |-> invitations, created |-> <<>>, sent |-> <<>>,
                         emailErrors |-> <<>>, threw |-> FALSE],
                        1, n, toks, fails,
                        NewInvitation(project, user, 0, chapters, expiresAt,
                                      circleName))
        IN  Outcome(done.invs, sessions, markers, markerSeq,
                IF done.threw
                THEN RespMail("CreateInvitations", 500, "ServerError",
                              NoBody, done.sent)
                ELSE RespMail("CreateInvitations", 201, "",
                              [invitations |-> done.created,
                               emailErrors |-> done.emailErrors],
                              done.sent))

(***************************************************************************)
(* DELETE /invitations/:invitationId  (RevokeInvitation)                   *)
(***************************************************************************)
\* A revoke that leaves expired invitations as they are
RevokeUnlessExpired(inv) ==
    IF inv.status = "expired" THEN inv
    ELSE update_reader_updated_at([inv EXCEPT !.status = "revoked"])

\* UPDATE reader_invitations SET status = 'revoked'
Revoke(inv) == update_reader_updated_at([inv EXCEPT !.status = "revoked"])

RevokeInvitationOut(user, id) ==
    IF id \in 1..Len(invitations) /\ invitations[id].user_id = user
        THEN Outcome([invitations EXCEPT ![id] = Revoke(invitations[id])],
                     sessions, markers, markerSeq,
                     Resp("RevokeInvitation", 200, "", NoBody))
        ELSE ReadOnly(Resp("RevokeInvitation", 404, "NotFound", NoBody))

(***************************************************************************)
(* POST /invitations/:invitationId/resend  (ResendInvitation)              *)
(***************************************************************************)
ResendInvitationOut(user, id, emailOk) ==
    IF ~(id \in 1..Len(invitations) /\ invitations[id].user_id = user)
        THEN ReadOnly(Resp("ResendInvitation", 404, "NotFound", NoBody))
        ELSE IF IsExpired(invitations[id])
        THEN ReadOnly(Resp("ResendInvitation", 400, "Expired", NoBody))
        ELSE IF IsRevoked(invitations[id])
        THEN ReadOnly(Resp("ResendInvitation", 400, "Revoked", NoBody))
        ELSE IF emailOk
        THEN ReadOnly(RespMail("ResendInvitation", 200, "", NoBody,
                               <<invitations[id].access_token>>))
        ELSE ReadOnly(Resp("ResendInvitation", 500, "EmailFailed", NoBody))

(***************************************************************************)
(* POST /markers  (CreateMarker)                                           *)
(***************************************************************************)
\* CONSTRAINT valid_marker_type
MarkerTypes == {"note", "question", "suggestion", "highlight", "revision"}

\* The constraints of reader_markers an INSERT can violate: chapter_id,
\* scene_id and marker_id NOT NULL ("" is a field the request lacks) and
\* valid_marker_type, which a NULL marker_type passes
MarkerInsertAllowed(chapterId, sceneId, markerId, markerType) ==
    /\ chapterId # ""
    /\ sceneId # ""
    /\ markerId # ""
    /\ markerType = "" \/ markerType \in MarkerTypes

\* A marker check that forgets the revoked status
MarkerRefusedOnlyExpired(inv) == IsExpired(inv)

\* inv.status === 'revoked' || new Date(inv.expires_at) < new Date()
MarkerRefused(inv) == inv.status = "revoked" \/ IsExpired(inv)

\* An activity update that also marks the invitation accepted
TouchActivityAccepting(inv) ==
    update_reader_updated_at(
        [inv EXCEPT !.last_activity_at = now, !.status = "accepted"])

\* UPDATE reader_invitations SET last_activity_at = NOW()
TouchActivity(inv) == update_reader_updated_at([inv EXCEPT !.last_activity_at = now])

CreateMarkerOut(token, chapterId, sceneId, markerId, markerType, markerText) ==
    LET ids == ByToken(token)
    IN  IF ids = {}
        THEN ReadOnly(Resp("CreateMarker", 404, "NotFound", NoBody))
        ELSE
        LET id == FirstId(ids)
            inv == invitations[id]
            row == [id |-> markerSeq + 1, invitation_id |-> id,
                    project_id |-> inv.project_id, chapter_id |-> chapterId,
                    scene_id |-> sceneId, marker_id |-> markerId,
                    marker_type |-> markerType, marker_text |-> markerText,
                    imported_to_project |-> FALSE, imported_at |-> NULL,
                    updated_at |-> now]
        IN  IF MarkerRefused(inv)
            THEN ReadOnly(Resp("CreateMarker", 403, "Forbidden", NoBody))
            ELSE IF ~MarkerInsertAllowed(chapterId, sceneId, markerId, markerType)
            THEN ReadOnly(Resp("CreateMarker", 500, "ServerError", NoBody))
            ELSE Outcome([invitations EXCEPT ![id] = TouchActivity(inv)], sessions,
                         markers \cup {row}, markerSeq + 1,
                         Resp("CreateMarker", 201, "", [marker |-> row]))

(***************************************************************************)
(* PUT /markers/:markerId, DELETE /markers/:markerId                       *)
(***************************************************************************)
\* A match that accepts the token of any invitation
MarkersByAnyToken(markerId, token) ==
    {m \in markers : m.id = markerId /\ ByToken(token) # {}}

\* WHERE rm.id = $2 AND rm.invitation_id = ri.id AND ri.access_token = $3
MarkersByToken(markerId, token) ==
    {m \in markers : m.id = markerId /\ m.invitation_id \in ByToken(token)}

\* SET marker_text = $1, updated_at = NOW()
SetMarkerText(m, markerText) ==
    update_reader_updated_at([m EXCEPT !.marker_text = markerText])

UpdateMarkerOut(markerId, token, markerText) ==
    LET hit == MarkersByToken(markerId, token)
    IN  IF hit = {}
        THEN ReadOnly(Resp("UpdateMarker", 404, "NotFound", NoBody))
        ELSE Outcome(invitations, sessions,
                     {IF m \in hit THEN SetMarkerText(m, markerText) ELSE m :
                         m \in markers},
                     markerSeq,
                     Resp("UpdateMarker", 200, "",
                          [marker |-> SetMarkerText(CHOOSE m \in hit : TRUE,
                                                    markerText)]))

DeleteMarkerOut(markerId, token) ==
    LET hit == MarkersByToken(markerId, token)
    IN  IF hit = {}
        THEN ReadOnly(Resp("DeleteMarker", 404, "NotFound", NoBody))
        ELSE Outcome(invitations, sessions, markers \ hit, markerSeq,
                     Resp("DeleteMarker", 200, "", NoBody))

(***************************************************************************)
(* GET /markers/:invitationId, POST /markers/:markerId/import              *)
(***************************************************************************)
\* An ownership test that every user passes for an invitation that exists
OwnsAnyInvitation(user, invId) == invId \in 1..Len(invitations)

\* JOIN projects p ON p.project_id = ri.project_id WHERE ... p.user_id = $2
OwnsInvitation(user, invId) ==
    /\ invId \in 1..Len(invitations)
    /\ projects[invitations[invId].project_id].user_id = user

\* SELECT rm.* FROM reader_markers rm WHERE rm.invitation_id = $1
MarkersOf(invId) == {m \in markers : m.invitation_id = invId}

GetMarkersOut(user, invId) ==
    IF ~OwnsInvitation(user, invId)
        THEN ReadOnly(Resp("GetMarkers", 404, "NotFound", NoBody))
        ELSE ReadOnly(Resp("GetMarkers", 200, "",
                           [markers |-> MarkersOf(invId)]))

\* An import that toggles the flag instead of setting it
MarkImportedToggling(m) ==
    update_reader_updated_at(
        [m EXCEPT !.imported_to_project = ~m.imported_to_project,
                  !.imported_at = now])

\* UPDATE reader_markers SET imported_to_project = true, imported_at = NOW()
MarkImported(m) ==
    update_reader_updated_at(
        [m EXCEPT !.imported_to_project = TRUE, !.imported_at = now])

\* `[${markerData.reader_name}]\n${markerData.marker_text}`
ImportedText(reader_name, marker_text) ==
    <<"[", reader_name, "]\n", marker_text>>

ImportMarkerOut(user, markerId) ==
    LET hit == {m \in markers :
                   m.id = markerId /\ OwnsInvitation(user, m.invitation_id)}
    IN  IF hit = {}
        THEN ReadOnly(Resp("ImportMarker", 404, "NotFound", NoBody))
        ELSE
        LET markerData == CHOOSE m \in hit : TRUE
            reader_name == invitations[markerData.invitation_id].reader_name
        IN  Outcome(invitations, sessions,
                    {IF m.id = markerId THEN MarkImported(m) ELSE m : m \in markers},
                    markerSeq,
                    Resp("ImportMarker", 200, "",
                         [type |-> markerData.marker_type,
                          text |-> ImportedText(reader_name,
                                                markerData.marker_text),
                          chapterId |-> markerData.chapter_id,
                          isReaderFeedback |-> TRUE]))

(***************************************************************************)
(* POST /progress, POST /notes, GET /notes/:token                          *)
(***************************************************************************)
UpdateProgressOut(token, chapterId, completionPercentage) ==
    LET ids == ByToken(token)
    IN  IF ids = {}
        THEN ReadOnly(Resp("UpdateProgress", 404, "NotFound", NoBody))
        ELSE
        LET invId == FirstId(ids)
            hit == SessionsOf(sessions, invId)
        IN  Outcome([invitations EXCEPT ![invId] = TouchActivity(invitations[invId])],
                    IF hit = {} THEN sessions ELSE
                    [i \in 1..Len(sessions) |->
                        IF i \in hit
                        THEN [sessions[i] EXCEPT
                                    !.last_chapter_id = chapterId,
                                    !.completion_percentage = completionPercentage]
                        ELSE sessions[i]],
                    markers, markerSeq,
                    Resp("UpdateProgress", 200, "", NoBody))

\* A notes request that creates the session row when there is none
UpdateNotesUpserting(token, notes) ==
    LET ids == ByToken(token)
    IN  IF ids = {}
        THEN ReadOnly(Resp("UpdateNotes", 404, "NotFound", NoBody))
        ELSE
        LET invId == FirstId(ids)
            hit == SessionsOf(sessions, invId)
        IN  Outcome([invitations EXCEPT ![invId] = TouchActivity(invitations[invId])],
                    IF hit = {}
                    THEN Append(sessions, [NewSession(invId) EXCEPT !.notes = notes])
                    ELSE [i \in 1..Len(sessions) |->
                            IF i \in hit
                            THEN [sessions[i] EXCEPT !.notes = notes]
                            ELSE sessions[i]],
                    markers, markerSeq,
                    Resp("UpdateNotes", 200, "", [notes |-> notes]))

\* UPDATE reader_sessions SET notes = $1 ... WHERE invitation_id = $2, and
\* `result.rows[0]?.notes || ''`
UpdateNotesOut(token, notes) ==
    LET ids == ByToken(token)
    IN  IF ids = {}
        THEN ReadOnly(Resp("UpdateNotes", 404, "NotFound", NoBody))
        ELSE
        LET invId == FirstId(ids)
            hit == SessionsOf(sessions, invId)
        IN  Outcome([invitations EXCEPT ![invId] = TouchActivity(invitations[invId])],
                    IF hit = {} THEN sessions ELSE
                    [i \in 1..Len(sessions) |->
                        IF i \in hit
                        THEN [sessions[i] EXCEPT !.notes = notes]
                        ELSE sessions[i]],
                    markers, markerSeq,
                    Resp("UpdateNotes", 200, "",
                         [notes |-> IF hit = {} THEN "" ELSE notes]))

GetNotesOut(token) ==
    LET hit == {i \in 1..Len(sessions) : sessions[i].invitation_id \in ByToken(token)}
    IN  IF hit = {}
        THEN ReadOnly(Resp("GetNotes", 404, "NotFound", NoBody))
        ELSE ReadOnly(Resp("GetNotes", 200, "",
                           [notes |-> sessions[FirstId(hit)].notes]))

(***************************************************************************)
(* PUT /api/projects/:id  (routes/projects.js): the author rewrites the    *)
(* manuscript.  `data` is the new project_data, reduced to its chapter     *)
(* list: [has_chapters, chapters].                                         *)
(***************************************************************************)
UpdateProjectOut(user, project, data) ==
    IF projects[project].user_id = user
    THEN [projects EXCEPT ![project].has_chapters = data.has_chapters,
                          ![project].chapters = data.chapters]
    ELSE projects

(***************************************************************************)
(* The requests as actions.                                                *)
(***************************************************************************)
\* A handler's outcome becomes the next state; the clock and the projects
\* table are not written by the readers router.
Apply(o) ==
    /\ invitations' = o.invitations
    /\ sessions' = o.sessions
    /\ markers' = o.markers
    /\ markerSeq' = o.markerSeq
    /\ resp' = o.resp
    /\ UNCHANGED <<now, projects, inflight>>

\* Time passes between requests.
Tick ==
    /\ now < MaxTime
    /\ now' = now + 1
    /\ UNCHANGED <<projects, invitations, sessions, markers, markerSeq, resp,
                   inflight>>

\* crypto.randomBytes(32).toString('hex') for n readers: tokens no row has,
\* or (collide) any tokens, those of the rows and of the same request included
TokenDraws(n, collide) ==
    IF collide THEN [1..n -> 1..(Len(invitations) + n)]
    ELSE {[k \in 1..n |-> Len(invitations) + k]}

\* `in` names the sets a specification draws the request from
CreateInvitations(in) ==
    \E user \in in.users, project \in in.projects, chapters \in in.chapterLists,
       n \in in.sizes, expiresAt \in in.expiries, circleName \in in.circleNames :
        \E toks \in TokenDraws(n, in.collide),
           fails \in {f \cap (1..n) : f \in in.failSets} :
            LET o == CreateInvitationsOut(user, project, chapters, n, toks, fails,
                                          expiresAt, circleName)
            IN  /\ Len(o.invitations) <= in.maxRows
                /\ Apply(o)

ResolveAccess == \E token \in Tokens : Apply(ResolveAccessOut(token))

RevokeInvitation ==
    \E user \in Users, id \in 1..MaxInv : Apply(RevokeInvitationOut(user, id))

ResendInvitation ==
    \E user \in Users, id \in 1..MaxInv, emailOk \in BOOLEAN :
        Apply(ResendInvitationOut(user, id, emailOk))

\* What a reader's client sends as chapterId, sceneId, markerId and
\* markerType: "" is a missing field, "bogus" a type the table does not know
MarkerChapterInputs == {"A", "B", ""}
MarkerSceneInputs == {"s", ""}
MarkerIdInputs == {"m"}
MarkerTypeInputs == {"note", "bogus"}

CreateMarker ==
    \E token \in Tokens, chapterId \in MarkerChapterInputs,
       sceneId \in MarkerSceneInputs, markerId \in MarkerIdInputs,
       markerType \in MarkerTypeInputs :
        LET o == CreateMarkerOut(token, chapterId, sceneId, markerId,
                                 markerType, "x")
        IN  /\ o.markerSeq <= MaxMarkers
            /\ Apply(o)

UpdateMarker ==
    \E markerId \in 1..MaxMarkers, token \in Tokens :
        Apply(UpdateMarkerOut(markerId, token, "y"))

DeleteMarker ==
    \E markerId \in 1..MaxMarkers, token \in Tokens :
        Apply(DeleteMarkerOut(markerId, token))

GetMarkers ==
    \E user \in Users, id \in 1..MaxInv : Apply(GetMarkersOut(user, id))

ImportMarker ==
    \E user \in Users, markerId \in 1..MaxMarkers :
        Apply(ImportMarkerOut(user, markerId))

UpdateProgress == \E token \in Tokens : Apply(UpdateProgressOut(token, "B", 50))

UpdateNotes == \E token \in Tokens : Apply(UpdateNotesOut(token, "n"))

GetNotes == \E token \in Tokens : Apply(GetNotesOut(token))

UpdateProject(manuscripts) ==
    \E user \in Users, project \in {"p1"}, data \in manuscripts :
        /\ projects' = UpdateProjectOut(user, project, data)
        /\ UNCHANGED <<now, invitations, sessions, markers, markerSeq, resp,
                       inflight>>

(***************************************************************************)
(* Spec: every handler of the readers router, requests one at a time, on   *)
(* author u1's project p1.                                                 *)
(***************************************************************************)
\* projects as the projects router left them: p1 is u1's, p2 is u2's
\* The requests that can be in flight at once, and one that is not
Requests == 1..MaxRequests

Idle == [pc |-> "idle", id |-> 0, inv |-> NoBody, project |-> NoBody]

InitProjects ==
    [p \in ProjectIds |->
        IF p = "p1"
        THEN [user_id |-> "u1", has_chapters |-> TRUE,
              chapters |-> <<"A", "B", "C", "D">>]
        ELSE [user_id |-> "u2", has_chapters |-> TRUE, chapters |-> <<"E">>]]

Init ==
    /\ now = 0
    /\ projects = InitProjects
    /\ invitations = <<>>
    /\ sessions = <<>>
    /\ markers = {}
    /\ markerSeq = 0
    /\ resp = NoResp
    /\ inflight = [r \in Requests |-> Idle]

\* The expiresAt an author sends: an instant of the model, or none at all
ExpiresAtInputs == (0..MaxTime) \cup {NULL}

SpecInputs ==
    [users |-> Users, projects |-> {"p1"}, chapterLists |-> {<<"B", "D">>},
     sizes |-> 0..MaxInv, expiries |-> ExpiresAtInputs, circleNames |-> {""},
     failSets |-> {{}, {1}}, collide |-> FALSE, maxRows |-> MaxInv]

Next ==
    \/ Tick
    \/ CreateInvitations(SpecInputs)
    \/ ResolveAccess
    \/ RevokeInvitation
    \/ ResendInvitation
    \/ CreateMarker
    \/ UpdateMarker
    \/ DeleteMarker
    \/ GetMarkers
    \/ ImportMarker
    \/ UpdateProgress
    \/ UpdateNotes
    \/ GetNotes

Spec == Init /\ [][Next]_vars

(***************************************************************************)
(* The life cycle of an invitation (checked under Spec).                   *)
(***************************************************************************)
Ids == 1..Len(invitations)

TokenOf(i) == invitations[i].access_token

Blocked(inv) == inv.status \in {"expired", "revoked"}

\* C1: once an invitation's stored status is expired or revoked it stays one
\* of the two, keeps its token, and every later ResolveAccess on that token
\* answers 403 (Expired or Forbidden) without a chapter list.
C1_BlockedNeverServed ==
    [][\A i \in Ids :
          Blocked(invitations[i]) =>
            /\ Len(invitations') >= i
            /\ Blocked(invitations'[i])
            /\ invitations'[i].access_token = TokenOf(i)
            /\ Apply(ResolveAccessOut(TokenOf(i))) =>
                 /\ resp'.status = 403
                 /\ resp'.error \in {"Expired", "Forbidden"}
                 /\ resp'.body = NoBody]_vars

\* C1 witness: a revoked invitation whose reader was then refused.
C1_Witness ==
    \E i \in Ids :
        /\ invitations[i].status = "revoked"
        /\ resp.op = "ResolveAccess"
        /\ resp.error = "Forbidden"

C5_ExpiredAccess ==
    [][\A i \in Ids :
          (invitations[i].expires_at < now /\ Apply(ResolveAccessOut(TokenOf(i)))) =>
            /\ resp'.status = 403
            /\ resp'.error = "Expired"
            /\ resp'.body = NoBody
            /\ invitations'[i].status = "expired"
            /\ sessions' = sessions]_vars

\* C5 witness: an invitation that had been accepted is expired and its
\* reader was told so.
C5_Witness ==
    \E i \in Ids :
        /\ invitations[i].status = "expired"
        /\ invitations[i].accepted_at # NULL
        /\ invitations[i].expires_at < now
        /\ resp.op = "ResolveAccess"
        /\ resp.error = "Expired"

(***************************************************************************)
(* ResendInvitation (checked under Spec).                                  *)
(***************************************************************************)
\* C8 as claimed: whoever the caller is, a ResendInvitation for an invitation
\* with expires_at < now fails with Expired, one for an invitation with
\* status revoked fails with Revoked, and neither sends an email.
C8_ResendRefusedForAnyCaller ==
    [][resp'.op = "ResendInvitation" =>
       \A u \in Users, i \in Ids, ok \in BOOLEAN :
          Apply(ResendInvitationOut(u, i, ok)) =>
            /\ invitations[i].expires_at < now =>
                 (resp'.error = "Expired" /\ resp'.sent = <<>>)
            /\ invitations[i].status = "revoked" =>
                 (resp'.error = "Revoked" /\ resp'.sent = <<>>)]_vars

\* C8 as amended: for the author who created the invitation, ResendInvitation
\* fails with Expired when expires_at < now and with Revoked when the status
\* is revoked and expires_at is not yet past; for any other caller it fails
\* with NotFound; in each of these cases no email is sent and nothing stored
\* changes.
C8_ResendRefused ==
    [][resp'.op = "ResendInvitation" =>
       \A u \in Users, i \in Ids, ok \in BOOLEAN :
          (/\ invitations[i].expires_at < now \/ invitations[i].status = "revoked"
           /\ Apply(ResendInvitationOut(u, i, ok))) =>
            /\ resp'.op = "ResendInvitation"
            /\ resp'.status \in {400, 404}
            /\ resp'.sent = <<>>
            /\ invitations' = invitations
            /\ resp'.error =
                 IF invitations[i].user_id # u THEN "NotFound"
                 ELSE IF invitations[i].expires_at < now THEN "Expired"
                 ELSE "Revoked"]_vars

\* C8 witness: the resend of a revoked invitation was refused as Revoked.
C8_Witness ==
    \E i \in Ids :
        /\ invitations[i].status = "revoked"
        /\ resp.op = "ResendInvitation"
        /\ resp.error = "Revoked"
        /\ resp.sent = <<>>

C10_ImportChangesOnlyImportedAt ==
    [][resp'.op = "ImportMarker" =>
       \A u \in Users, m \in markers :
          (/\ m.imported_to_project
           /\ projects[invitations[m.invitation_id].project_id].user_id = u
           /\ Apply(ImportMarkerOut(u, m.id))) =>
            /\ resp'.status = 200
            /\ markers' = (markers \ {m}) \cup {[m EXCEPT !.imported_at = now]}
            /\ invitations' = invitations
            /\ sessions' = sessions]_vars

\* C10 as amended: an ImportMarker by the project's owner succeeds and leaves
\* imported_to_project true; on a marker that was already imported it
\* changes nothing except that marker's imported_at and updated_at, and it
\* returns the same marker data.
C10_ImportIdempotent ==
    [][resp'.op = "ImportMarker" =>
       \A u \in Users, m \in markers :
          (/\ projects[invitations[m.invitation_id].project_id].user_id = u
           /\ Apply(ImportMarkerOut(u, m.id))) =>
            /\ resp'.status = 200
            /\ resp'.body.text =
                   <<"[", invitations[m.invitation_id].reader_name, "]\n",
                     m.marker_text>>
            /\ resp'.body.chapterId = m.chapter_id
            /\ \E n \in markers' : n.id = m.id /\ n.imported_to_project
            /\ invitations' = invitations
            /\ sessions' = sessions
            /\ m.imported_to_project =>
                 markers' = (markers \ {m}) \cup
                     {[m EXCEPT !.imported_at = now, !.updated_at = now]}]_vars

\* C10 witness: a marker imported at an earlier instant has been imported
\* again.
C10_Witness ==
    \E m \in markers :
        /\ m.imported_to_project
        /\ m.imported_at = now
        /\ m.updated_at = now
        /\ now > 0
        /\ resp.op = "ImportMarker"
        /\ resp.status = 200

(***************************************************************************)
(* The reader limit (checked under SpecQuota): batches of several readers  *)
(* fill project p1 up to and beyond the limit while time passes and the    *)
(* first invitations are opened or revoked.                                *)
(***************************************************************************)
BatchSizes == {7, 8}

QuotaInputs ==
    [users |-> Users, projects |-> {"p1"}, chapterLists |-> {<<"B", "D">>},
     sizes |-> BatchSizes, expiries |-> {MaxTime, MaxTime + 1},
     circleNames |-> {""}, failSets |-> {{}, {1}}, collide |-> FALSE,
     maxRows |-> MaxQuotaRows]

NextQuota ==
    \/ Tick
    \/ CreateInvitations(QuotaInputs)
    \/ ResolveAccess
    \/ RevokeInvitation

SpecQuota == Init /\ [][NextQuota]_vars

\* C4: a CreateInvitations by the project's owner for n readers, when the
\* number of the project's invitations with status pending or accepted and
\* expires_at > now plus n exceeds 15, returns the quota error, stores no
\* invitation row (the table is unchanged) and sends no email.
C4_QuotaRejectsBatch ==
    [][resp'.op = "CreateInvitations" =>
       \A u \in QuotaInputs.users, p \in QuotaInputs.projects,
          n \in QuotaInputs.sizes, e \in QuotaInputs.expiries,
          fails \in QuotaInputs.failSets :
          LET active == Cardinality({i \in Ids :
                            /\ invitations[i].project_id = p
                            /\ invitations[i].status \in {"pending", "accepted"}
                            /\ invitations[i].expires_at > now})
              toks == [k \in 1..n |-> Len(invitations) + k]
          IN  (/\ projects[p].user_id = u
               /\ active + n > 15
               /\ Apply(CreateInvitationsOut(u, p, <<"B", "D">>, n, toks, fails,
                                             e, ""))) =>
                /\ resp'.op = "CreateInvitations"
                /\ resp'.status = 400
                /\ resp'.error = "QuotaExceeded"
                /\ resp'.sent = <<>>
                /\ invitations' = invitations]_vars

\* C4 witness: a batch was turned down for the limit although fewer than 15
\* invitations are active.
C4_Witness ==
    /\ resp.op = "CreateInvitations"
    /\ resp.error = "QuotaExceeded"
    /\ Cardinality({i \in Ids :
           /\ invitations[i].status \in {"pending", "accepted"}
           /\ invitations[i].expires_at > now}) \in 8..14

(***************************************************************************)
(* The content filter (checked under SpecFilter): the author invites one   *)
(* reader to some chapters and keeps rewriting the manuscript of p1 while  *)
(* the reader opens the invitation.                                        *)
(***************************************************************************)
SeqsUpTo(S, n) == UNION {[1..k -> S] : k \in 0..n}

\* chapters_accessible of the request: up to two ids, "E" is in no manuscript
AccessLists == SeqsUpTo({"B", "D", "E"}, 2)

\* A list without a repeated element
Distinct(list) ==
    \A k, l \in 1..Len(list) : list[k] = list[l] => k = l

\* project_data the author saves: no chapter list at all, or a list of up to
\* MaxChapters chapters; the projects router stores what it is sent, so ids
\* may repeat (here in the lists of up to two chapters)
Manuscripts ==
    {[has_chapters |-> FALSE, chapters |-> <<>>]} \cup
    {[has_chapters |-> TRUE, chapters |-> s] :
        s \in {t \in SeqsUpTo({"A", "B", "C", "D"}, MaxChapters) :
                  Distinct(t) \/ Len(t) <= 2}}

FilterInputs ==
    [users |-> {"u1"}, projects |-> {"p1"}, chapterLists |-> AccessLists,
     sizes |-> {1}, expiries |-> {MaxTime + 1}, circleNames |-> {""},
     failSets |-> {{}}, collide |-> FALSE, maxRows |-> MaxInv]

NextFilter ==
    \/ CreateInvitations(FilterInputs)
    \/ UpdateProject(Manuscripts)
    \/ ResolveAccess

SpecFilter == Init /\ [][NextFilter]_vars

Range(list) == {list[k] : k \in 1..Len(list)}

\* C6: every chapter a successful ResolveAccess returns carries as
\* chapterNumber a 1-based position of the unfiltered manuscript list at
\* which its id stands; manuscript [A,B,C,D] with chapters_accessible [B,D]
\* yields B with 2 and D with 4.
C6_OriginalNumbering ==
    [][\A i \in Ids :
          (Apply(ResolveAccessOut(TokenOf(i))) /\ resp'.status = 200) =>
            LET ms == projects[invitations[i].project_id].chapters
                out == resp'.body.chapters
            IN  /\ \A k \in 1..Len(out) :
                      /\ out[k].chapterNumber \in 1..Len(ms)
                      /\ ms[out[k].chapterNumber] = out[k].id
                /\ (ms = <<"A", "B", "C", "D">>
                        /\ invitations[i].chapters_accessible = <<"B", "D">>) =>
                      out = <<[id |-> "B", chapterNumber |-> 2],
                              [id |-> "D", chapterNumber |-> 4]>>]_vars

\* C6 witness: the reader of chapters [B,D] of a manuscript [A,B,C,D] was
\* answered with B as chapter 2 and D as chapter 4.
C6_Witness ==
    /\ resp.op = "ResolveAccess"
    /\ resp.status = 200
    /\ resp.body.chapters = <<[id |-> "B", chapterNumber |-> 2],
                              [id |-> "D", chapterNumber |-> 4]>>

\* C7: a successful ResolveAccess returns exactly the manuscript chapters
\* whose id is in chapters_accessible, in manuscript order: every returned id
\* is in chapters_accessible, every manuscript position holding such an id is
\* returned once, positions ascend, and ids of chapters_accessible that are
\* not in the manuscript add nothing.
C7_ExactlyAccessible ==
    [][\A i \in Ids :
          (Apply(ResolveAccessOut(TokenOf(i))) /\ resp'.status = 200) =>
            LET p == projects[invitations[i].project_id]
                ms == IF p.has_chapters THEN p.chapters ELSE <<>>
                acc == Range(invitations[i].chapters_accessible)
                out == resp'.body.chapters
                granted == {n \in 1..Len(ms) : ms[n] \in acc}
            IN  /\ \A k \in 1..Len(out) : out[k].id \in acc
                /\ {out[k].chapterNumber : k \in 1..Len(out)} = granted
                /\ \A k \in 1..Len(out) : ms[out[k].chapterNumber] = out[k].id
                /\ \A k, l \in 1..Len(out) :
                      k < l => out[k].chapterNumber < out[l].chapterNumber
                /\ Len(out) = Cardinality(granted)]_vars

\* C7 witness: an invitation naming a chapter the manuscript does not have
\* and one it has got exactly the one chapter, of a manuscript with more.
C7_Witness ==
    \E i \in Ids :
        /\ "E" \in Range(invitations[i].chapters_accessible)
        /\ resp.op = "ResolveAccess"
        /\ resp.status = 200
        /\ resp.body.id = i
        /\ Len(resp.body.chapters) = 1
        /\ Len(projects[invitations[i].project_id].chapters) > 1

(***************************************************************************)
(* Overlapping GET /access/:token requests (SpecOverlap).  The handler is  *)
(* suspended at every "await db.query": each statement is one step, and    *)
(* the steps of the requests in flight interleave.  What a request read    *)
(* (inv, with the joined project_data) stays in its locals.                *)
(***************************************************************************)
\* res.json({ invitation: {...}, chapters: filteredChapters, session })
AccessBody(id, inv, project, session) ==
    [id |-> id, expiresAt |-> inv.expires_at, status |-> inv.status,
     chapters |-> FilteredChapters(project, inv.chapters_accessible),
     session |-> session]

Suspend(r, pc) == inflight' = [inflight EXCEPT ![r].pc = pc]

Finish(r, response) ==
    /\ inflight' = [inflight EXCEPT ![r] = Idle]
    /\ resp' = response

\* SELECT ri.*, p.project_data ... WHERE ri.access_token = $1, and the checks
\* that run on its result before the next statement is issued
AccessSelect ==
    \E r \in Requests, token \in Tokens :
        /\ inflight[r].pc = "idle"
        /\ UNCHANGED <<now, projects, invitations, sessions, markers, markerSeq>>
        /\ LET ids == ByToken(token)
           IN  IF ids = {}
               THEN Finish(r, Resp("ResolveAccess", 404, "NotFound", NoBody))
               ELSE
               LET id == FirstId(ids)
                   inv == invitations[id]
               IN  IF ~IsExpired(inv) /\ IsRevoked(inv)
                   THEN Finish(r, Resp("ResolveAccess", 403, "Forbidden", NoBody))
                   ELSE /\ inflight' =
                             [inflight EXCEPT ![r] =
                                 [pc |-> IF IsExpired(inv) THEN "expire"
                                         ELSE IF inv.status = "pending"
                                         THEN "accept" ELSE "session",
                                  id |-> id, inv |-> inv,
                                  project |-> projects[inv.project_id]]]
                        /\ UNCHANGED resp

\* UPDATE reader_invitations SET status = 'expired' WHERE id = $1
AccessExpire ==
    \E r \in Requests :
        /\ inflight[r].pc = "expire"
        /\ invitations' = [invitations EXCEPT
               ![inflight[r].id] = Expire(invitations[inflight[r].id])]
        /\ Finish(r, Resp("ResolveAccess", 403, "Expired", NoBody))
        /\ UNCHANGED <<now, projects, sessions, markers, markerSeq>>

\* UPDATE reader_invitations SET status = 'accepted', accepted_at = NOW()
\* WHERE id = $1
AccessAccept ==
    \E r \in Requests :
        /\ inflight[r].pc = "accept"
        /\ invitations' = [invitations EXCEPT
               ![inflight[r].id] = Accept(invitations[inflight[r].id])]
        /\ Suspend(r, "session")
        /\ UNCHANGED <<now, projects, sessions, markers, markerSeq, resp>>

\* SELECT * FROM reader_sessions WHERE invitation_id = $1
AccessSessionSelect ==
    \E r \in Requests :
        /\ inflight[r].pc = "session"
        /\ UNCHANGED <<now, projects, invitations, sessions, markers, markerSeq>>
        /\ LET found == SessionsOf(sessions, inflight[r].id)
           IN  IF found = {}
               THEN Suspend(r, "insert") /\ UNCHANGED resp
               ELSE Finish(r, Resp("ResolveAccess", 200, "",
                               AccessBody(inflight[r].id, inflight[r].inv,
                                          inflight[r].project,
                                          sessions[FirstId(found)])))

\* INSERT INTO reader_sessions (invitation_id) VALUES ($1) RETURNING *
AccessSessionInsert ==
    \E r \in Requests :
        /\ inflight[r].pc = "insert"
        /\ sessions' = Append(sessions, NewSession(inflight[r].id))
        /\ Finish(r, Resp("ResolveAccess", 200, "",
                      AccessBody(inflight[r].id, inflight[r].inv,
                                 inflight[r].project,
                                 NewSession(inflight[r].id))))
        /\ UNCHANGED <<now, projects, invitations, markers, markerSeq>>

OverlapInputs ==
    [users |-> {"u1"}, projects |-> {"p1"}, chapterLists |-> {<<"B", "D">>},
     sizes |-> {1}, expiries |-> {0, MaxTime + 1}, circleNames |-> {""},
     failSets |-> {{}}, collide |-> FALSE, maxRows |-> MaxInv]

NextOverlap ==
    \/ Tick
    \/ CreateInvitations(OverlapInputs)
    \/ AccessSelect
    \/ AccessExpire
    \/ AccessAccept
    \/ AccessSessionSelect
    \/ AccessSessionInsert

SpecOverlap == Init /\ [][NextOverlap]_vars

\* C11: the ResolveAccess that finds an invitation pending makes it accepted
\* and stamps accepted_at with the time of the update, and once accepted_at
\* is set no later step writes it again, also when requests overlap.
C11_AcceptedAtWrittenOnce ==
    [][\A i \in Ids :
          /\ (invitations[i].status = "pending"
                 /\ invitations'[i].status = "accepted") =>
               invitations'[i].accepted_at = now
          /\ invitations[i].accepted_at # NULL =>
               invitations'[i].accepted_at = invitations[i].accepted_at]_vars

\* C12: every invitation has at most one session row, also when two
\* ResolveAccess requests for its token overlap.
C12_OneSessionPerInvitation ==
    \A i \in Ids : Cardinality(SessionsOf(sessions, i)) <= 1

(***************************************************************************)
(* Batches (SpecBatch): the owner and a stranger invite up to MaxBatch     *)
(* readers at a time; any of the emails may fail, a generated token may be *)
(* one that is already taken, and the request may lack expiresAt.          *)
(***************************************************************************)
BatchInputs ==
    [users |-> Users, projects |-> {"p1"}, chapterLists |-> {<<"B", "D">>},
     sizes |-> 0..MaxBatch, expiries |-> {MaxTime + 1, NULL},
     circleNames |-> {""}, failSets |-> SUBSET (1..MaxBatch), collide |-> TRUE,
     maxRows |-> MaxBatchRows]

NextBatch ==
    \/ Tick
    \/ CreateInvitations(BatchInputs)

SpecBatch == Init /\ [][NextBatch]_vars

\* The elements of a set of numbers in ascending order
Ascending(S) ==
    CHOOSE q \in [1..Cardinality(S) -> S] :
        \A a, b \in 1..Cardinality(S) : a < b => q[a] < q[b]

ActiveRows(p) ==
    {i \in Ids : /\ invitations[i].project_id = p
                 /\ invitations[i].status \in {"pending", "accepted"}
                 /\ invitations[i].expires_at > now}

C15_TokensUnique ==
    \A i, j \in Ids :
        invitations[i].access_token = invitations[j].access_token => i = j

\* C15 witness: the insert for the second reader of a request was turned
\* down for its token after the first reader's email had gone out.
C15_Witness ==
    /\ resp.op = "CreateInvitations"
    /\ resp.status = 500
    /\ resp.sent # <<>>
    /\ Len(invitations) >= 2

(***************************************************************************)
(* RevokeInvitation (checked under Spec).                                  *)
(***************************************************************************)
\* C16 as claimed: a RevokeInvitation by the invitation's author sets the
\* status to revoked whatever it was, and on an invitation that is already
\* revoked it leaves the stored state as it is.
C16_RevokeTwiceSameState ==
    [][resp'.op = "RevokeInvitation" =>
       \A u \in Users, i \in Ids :
          (invitations[i].user_id = u /\ Apply(RevokeInvitationOut(u, i))) =>
            /\ invitations'[i].status = "revoked"
            /\ invitations[i].status = "revoked" => invitations' = invitations]_vars

\* C16 as amended: a RevokeInvitation by the invitation's author succeeds and
\* sets the status to revoked whatever it was, changing nothing else but the
\* row's updated_at; on an invitation that is already revoked it leaves the
\* stored state as it is except for updated_at.
C16_RevokeIdempotent ==
    [][resp'.op = "RevokeInvitation" =>
       \A u \in Users, i \in Ids :
          (invitations[i].user_id = u /\ Apply(RevokeInvitationOut(u, i))) =>
            /\ resp'.status = 200
            /\ invitations' = [invitations EXCEPT ![i].status = "revoked",
                                                  ![i].updated_at = now]
            /\ invitations[i].status = "revoked" =>
                 invitations' = [invitations EXCEPT ![i].updated_at = now]
            /\ sessions' = sessions
            /\ markers' = markers]_vars

\* C16 witness: an invitation that had been opened and had expired was
\* revoked by its author.
C16_Witness ==
    \E i \in Ids :
        /\ invitations[i].status = "revoked"
        /\ invitations[i].accepted_at # NULL
        /\ invitations[i].expires_at < now
        /\ invitations[i].updated_at = now
        /\ resp.op = "RevokeInvitation"
        /\ resp.status = 200

(***************************************************************************)
(* Markers and the chapters an invitation grants (checked under Spec).     *)
(***************************************************************************)
\* C14: the chapter of every stored marker is one of the chapters_accessible
\* of the marker's invitation.
C14_MarkerChapterGranted ==
    \A m \in markers :
        \E k \in 1..Len(invitations[m.invitation_id].chapters_accessible) :
            invitations[m.invitation_id].chapters_accessible[k] = m.chapter_id

(***************************************************************************)
(* PATCH /circles/:projectId/name and /archive  (RenameCircle,             *)
(* ArchiveCircle), checked under SpecCircle: the author invites readers    *)
(* one by one to chapters [B,D] or [D,B], with or without a circle name,   *)
(* and renames and archives circles.                                       *)
(***************************************************************************)
\* ri.chapters_accessible::jsonb = $4::jsonb: two jsonb arrays are equal
\* when they have the same elements at the same positions
JsonbEqual(a, b) == a = b

\* WHERE ri.project_id = $2 AND ri.user_id = $3 AND p.project_id =
\* ri.project_id AND p.user_id = $3 AND ri.chapters_accessible::jsonb = $4
CircleRows(user, project, chaptersAccessible) ==
    {i \in 1..Len(invitations) :
        /\ invitations[i].project_id = project
        /\ invitations[i].user_id = user
        /\ projects[project].user_id = user
        /\ JsonbEqual(invitations[i].chapters_accessible, chaptersAccessible)}

\* circle_name is NOT NULL (circles migration); "" is a request without
\* circleName, which only fails when a row is to be updated
RenameCircleOut(user, project, chaptersAccessible, circleName) ==
    LET hit == CircleRows(user, project, chaptersAccessible)
    IN  IF hit = {}
        THEN ReadOnly(Resp("RenameCircle", 404, "NotFound", NoBody))
        ELSE IF circleName = ""
        THEN ReadOnly(Resp("RenameCircle", 500, "ServerError", NoBody))
        ELSE Outcome([i \in 1..Len(invitations) |->
                        IF i \in hit
                        THEN update_reader_updated_at(
                                [invitations[i] EXCEPT !.circle_name = circleName])
                        ELSE invitations[i]],
                     sessions, markers, markerSeq,
                     Resp("RenameCircle", 200, "",
                          [updated |-> Cardinality(hit)]))

ArchiveCircleOut(user, project, chaptersAccessible, archived) ==
    LET hit == CircleRows(user, project, chaptersAccessible)
    IN  IF hit = {}
        THEN ReadOnly(Resp("ArchiveCircle", 404, "NotFound", NoBody))
        ELSE Outcome([i \in 1..Len(invitations) |->
                        IF i \in hit
                        THEN update_reader_updated_at(
                                [invitations[i] EXCEPT !.archived = archived])
                        ELSE invitations[i]],
                     sessions, markers, markerSeq,
                     Resp("ArchiveCircle", 200, "",
                          [updated |-> Cardinality(hit)]))

CircleChapterLists == {<<"B", "D">>, <<"D", "B">>}

CircleNames == {"", "c1", "c2"}

RenameCircle ==
    \E user \in Users, project \in ProjectIds,
       chaptersAccessible \in CircleChapterLists, circleName \in CircleNames :
        Apply(RenameCircleOut(user, project, chaptersAccessible, circleName))

ArchiveCircle ==
    \E user \in Users, project \in ProjectIds,
       chaptersAccessible \in CircleChapterLists, archived \in BOOLEAN :
        Apply(ArchiveCircleOut(user, project, chaptersAccessible, archived))

CircleInputs ==
    [users |-> Users, projects |-> {"p1"}, chapterLists |-> CircleChapterLists,
     sizes |-> {1}, expiries |-> {MaxTime + 1}, circleNames |-> {"", "c1"},
     failSets |-> {{}}, collide |-> FALSE, maxRows |-> MaxCircleRows]

NextCircle ==
    \/ Tick
    \/ CreateInvitations(CircleInputs)
    \/ RenameCircle
    \/ ArchiveCircle

SpecCircle == Init /\ [][NextCircle]_vars

\* C17: a RenameCircle or ArchiveCircle changes the invitations of one circle
\* only: the rows it changes have the same project, the same
\* chapters_accessible and the same circle_name, so rows with these chapters
\* but another circle_name stay as they are.
C17_OneCircleOnly ==
    [][resp'.op \in {"RenameCircle", "ArchiveCircle"} =>
       \A i, j \in Ids :
          (invitations'[i] # invitations[i] /\ invitations'[j] # invitations[j]) =>
            /\ invitations[i].project_id = invitations[j].project_id
            /\ invitations[i].chapters_accessible = invitations[j].chapters_accessible
            /\ invitations[i].circle_name = invitations[j].circle_name]_vars

\* The same chapters, in whatever order
SameChapters(a, b) ==
    /\ Len(a) = Len(b)
    /\ \A x \in Range(a) \cup Range(b) :
          Cardinality({k \in 1..Len(a) : a[k] = x}) =
          Cardinality({k \in 1..Len(b) : b[k] = x})

\* C18: a RenameCircle or ArchiveCircle by the author with any ordering of an
\* invitation's chapters_accessible updates that invitation, and answers
\* NotFound only when no invitation of the project and author has these
\* chapters.
C18_OrderIndependentMatch ==
    [][resp'.op \in {"RenameCircle", "ArchiveCircle"} =>
       \A u \in Users, chs \in CircleChapterLists :
          LET same == {i \in Ids : /\ invitations[i].project_id = "p1"
                                   /\ invitations[i].user_id = u
                                   /\ SameChapters(invitations[i].chapters_accessible,
                                                   chs)}
          IN  /\ \A name \in {"c1", "c2"} :
                    Apply(RenameCircleOut(u, "p1", chs, name)) =>
                      /\ \A i \in same : invitations'[i].circle_name = name
                      /\ resp'.status = 404 <=> same = {}
              /\ \A archived \in BOOLEAN :
                    Apply(ArchiveCircleOut(u, "p1", chs, archived)) =>
                      /\ \A i \in same : invitations'[i].archived = archived
                      /\ resp'.status = 404 <=> same = {}]_vars

(***************************************************************************)
(* Markers of several readers, checked under SpecMarkers: the author       *)
(* invites up to MaxReaders readers to project p1, and the readers (and    *)
(* holders of no token) create, edit and delete markers.                   *)
(***************************************************************************)
ReaderTokens == 1..(MaxReaders + 1)

MarkersInputs ==
    [users |-> {"u1"}, projects |-> {"p1"}, chapterLists |-> {<<"B", "D">>},
     sizes |-> {1}, expiries |-> {MaxTime + 1}, circleNames |-> {""},
     failSets |-> {{}}, collide |-> FALSE, maxRows |-> MaxReaders]

CreateMarkerByReaders ==
    \E token \in ReaderTokens :
        LET o == CreateMarkerOut(token, "B", "s", "m", "note", "x")
        IN  /\ o.markerSeq <= MaxNotes
            /\ Apply(o)

UpdateMarkerByReaders ==
    \E markerId \in 1..MaxNotes, token \in ReaderTokens :
        Apply(UpdateMarkerOut(markerId, token, "y"))

DeleteMarkerByReaders ==
    \E markerId \in 1..MaxNotes, token \in ReaderTokens :
        Apply(DeleteMarkerOut(markerId, token))

NextMarkers ==
    \/ Tick
    \/ CreateInvitations(MarkersInputs)
    \/ CreateMarkerByReaders
    \/ UpdateMarkerByReaders
    \/ DeleteMarkerByReaders

SpecMarkers == Init /\ [][NextMarkers]_vars

\* The marker markerId exists and is a marker of the invitation with this token
MarkerOfToken(markerId, token) ==
    \E m \in markers :
        /\ m.id = markerId
        /\ \E i \in Ids : m.invitation_id = i /\ TokenOf(i) = token

\* C19: an UpdateMarker or DeleteMarker changes or removes no marker but
\* markerId, and that one only when it is a marker of the invitation the
\* token identifies; for every other pair of markerId and token, the token of
\* another invitation of the same project included, the answer is NotFound
\* and the markers are as before.
C19_MarkerOnlyByItsToken ==
    [][resp'.op \in {"UpdateMarker", "DeleteMarker"} =>
       \A markerId \in 1..MaxNotes, token \in ReaderTokens :
          (\/ Apply(UpdateMarkerOut(markerId, token, "y"))
           \/ Apply(DeleteMarkerOut(markerId, token))) =>
            /\ \A m \in markers :
                  m \notin markers' => m.id = markerId /\ MarkerOfToken(markerId, token)
            /\ \A m \in markers' : m \notin markers => m.id = markerId
            /\ ~MarkerOfToken(markerId, token) =>
                  resp'.status = 404 /\ markers' = markers]_vars

\* A request on the markers of invitation 1 was answered NotFound while
\* invitation 2 of the same project has a valid token, and they are untouched
C19_Witness ==
    /\ resp.op \in {"UpdateMarker", "DeleteMarker"}
    /\ resp.status = 404
    /\ Len(invitations) = 2
    /\ invitations[1].project_id = invitations[2].project_id
    /\ markers # {}
    /\ \A m \in markers : m.invitation_id = 1 /\ m.marker_text = "x"

(***************************************************************************)
(* GET /invitations/:projectId  (ListInvitations), and the author's side   *)
(* of the router as two users see it, checked under SpecTenant: u1 owns    *)
(* p1, u2 owns p2, and either of them sends every author request about     *)
(* either project.                                                         *)
(***************************************************************************)
\* The columns the SELECT returns; marker_count is the COUNT(*) subquery
ListedRow(i) ==
    [id |-> i, reader_name |-> invitations[i].reader_name,
     status |-> invitations[i].status, accepted_at |-> invitations[i].accepted_at,
     expires_at |-> invitations[i].expires_at,
     last_activity_at |-> invitations[i].last_activity_at,
     project_id |-> invitations[i].project_id,
     chapters_accessible |-> invitations[i].chapters_accessible,
     circle_name |-> invitations[i].circle_name,
     archived |-> invitations[i].archived,
     marker_count |-> Cardinality({m \in markers : m.invitation_id = i})]

\* ORDER BY ri.created_at DESC: the rows in the reverse of insertion order
Descending(S) ==
    CHOOSE q \in [1..Cardinality(S) -> S] :
        \A a, b \in 1..Cardinality(S) : a < b => q[a] > q[b]

\* projectId is a project id or 'all'
ListInvitationsOut(user, projectId) ==
    LET rows == {i \in 1..Len(invitations) :
                    /\ projectId = "all" \/ invitations[i].project_id = projectId
                    /\ projects[invitations[i].project_id].user_id = user}
        order == Descending(rows)
    IN  ReadOnly(Resp("ListInvitations", 200, "",
                      [invitations |-> [k \in 1..Cardinality(rows) |->
                                           ListedRow(order[k])]]))

ListInvitations ==
    \E user \in Users, projectId \in ProjectIds \cup {"all"} :
        Apply(ListInvitationsOut(user, projectId))

TenantInputs ==
    [users |-> Users, projects |-> ProjectIds, chapterLists |-> {<<"B", "D">>},
     sizes |-> {1}, expiries |-> {MaxTime + 1}, circleNames |-> {""},
     failSets |-> {{}, {1}}, collide |-> FALSE, maxRows |-> MaxInv]

NextTenant ==
    \/ Tick
    \/ CreateInvitations(TenantInputs)
    \/ CreateMarker
    \/ ListInvitations
    \/ GetMarkers
    \/ ImportMarker
    \/ ResendInvitation
    \/ RevokeInvitation
    \/ RenameCircle
    \/ ArchiveCircle

SpecTenant == Init /\ [][NextTenant]_vars

OwnerOps ==
    {"CreateInvitations", "ListInvitations", "GetMarkers", "ImportMarker",
     "ResendInvitation", "RevokeInvitation", "RenameCircle", "ArchiveCircle"}

\* The user who owns the project of invitation i
OwnerOf(i) == projects[invitations[i].project_id].user_id

\* C20: an author operation sent by a user who does not own the project (or
\* the project of the invitation or marker) it names is answered NotFound, or
\* with an empty list by ListInvitations, changes no stored row and sends no
\* email; the list over all projects holds the caller's own invitations only.
C20_TenantIsolation ==
    [][resp'.op \in OwnerOps =>
       \A user \in Users :
          LET untouched == /\ resp'.sent = <<>>
                           /\ UNCHANGED <<projects, invitations, sessions,
                                          markers, markerSeq>>
              refused == resp'.status = 404 /\ untouched
          IN  /\ \A project \in ProjectIds :
                    projects[project].user_id # user =>
                      /\ \A toks \in TokenDraws(1, FALSE), fails \in {{}, {1}} :
                            Apply(CreateInvitationsOut(user, project, <<"B", "D">>,
                                     1, toks, fails, MaxTime + 1, "")) => refused
                      /\ Apply(ListInvitationsOut(user, project)) =>
                            resp'.body.invitations = <<>> /\ untouched
                      /\ \A chs \in CircleChapterLists, name \in CircleNames :
                            Apply(RenameCircleOut(user, project, chs, name)) => refused
                      /\ \A chs \in CircleChapterLists, archived \in BOOLEAN :
                            Apply(ArchiveCircleOut(user, project, chs, archived)) =>
                              refused
              /\ \A id \in Ids :
                    OwnerOf(id) # user =>
                      /\ Apply(GetMarkersOut(user, id)) => refused
                      /\ \A emailOk \in BOOLEAN :
                            Apply(ResendInvitationOut(user, id, emailOk)) => refused
                      /\ Apply(RevokeInvitationOut(user, id)) => refused
              /\ \A m \in markers :
                    OwnerOf(m.invitation_id) # user =>
                      (Apply(ImportMarkerOut(user, m.id)) => refused)
              /\ Apply(ListInvitationsOut(user, "all")) =>
                    /\ untouched
                    /\ \A k \in 1..Len(resp'.body.invitations) :
                          projects[resp'.body.invitations[k].project_id].user_id = user]_vars

\* A revoke of an existing, pending invitation with a marker was answered
\* NotFound: it was sent by a user who is not the author
C20_Witness ==
    /\ resp.op = "RevokeInvitation"
    /\ resp.status = 404
    /\ Len(invitations) = 1
    /\ invitations[1].status = "pending"
    /\ markers # {}

(***************************************************************************)
(* The reader limit as an invariant (checked under SpecQuota, where        *)
(* requests run one at a time and the clock only advances).                *)
(***************************************************************************)
\* C21: in every reachable state each project has at most 15 invitations
\* with status pending or accepted and expires_at > now.
C21_AtMostFifteenActive ==
    \A p \in ProjectIds :
        Cardinality({i \in Ids :
            /\ invitations[i].project_id = p
            /\ invitations[i].status \in {"pending", "accepted"}
            /\ invitations[i].expires_at > now}) <= 15

\* A batch was stored that brought project p1 to exactly 15 active invitations
C21_Witness ==
    /\ resp.op = "CreateInvitations"
    /\ resp.status = 201
    /\ Cardinality({i \in Ids :
           /\ invitations[i].project_id = "p1"
           /\ invitations[i].status \in {"pending", "accepted"}
           /\ invitations[i].expires_at > now}) = 15

(***************************************************************************)
(* Overlapping POST /invitations requests (SpecRace).  Each statement the  *)
(* handler awaits is one step; between two steps of a request the other    *)
(* request may run.  While a request is suspended, inflight[r].id is the   *)
(* number of readers it has processed and inflight[r].inv holds its        *)
(* locals: the request body, currentActive, invitations and the emails     *)
(* sent.  The read of the project's title runs with the count; the         *)
(* requests overlap within one instant of the clock.                       *)
(***************************************************************************)
RaceSizes == {8}

\* SELECT project_id FROM projects WHERE project_id = $1 AND user_id = $2
CreateSelectProject ==
    \E r \in Requests, user \in Users, project \in {"p1"}, n \in RaceSizes :
        /\ inflight[r].pc = "idle"
        /\ UNCHANGED <<now, projects, invitations, sessions, markers, markerSeq>>
        /\ IF projects[project].user_id # user
           THEN Finish(r, Resp("CreateInvitations", 404, "NotFound", NoBody))
           ELSE /\ inflight' =
                     [inflight EXCEPT ![r] =
                         [pc |-> "count", id |-> 0,
                          inv |-> [user |-> user, projectId |-> project,
                                   readers |-> n, currentActive |-> 0,
                                   invitations |-> <<>>, sent |-> <<>>],
                          project |-> projects[project]]]
                /\ UNCHANGED resp

\* SELECT COUNT(*) ... and `if (currentActive + readers.length > 15)`
CreateCount ==
    \E r \in Requests :
        /\ inflight[r].pc = "count"
        /\ UNCHANGED <<now, projects, invitations, sessions, markers, markerSeq>>
        /\ LET currentActive == ActiveCount(invitations, inflight[r].inv.projectId)
           IN  IF OverQuota(currentActive, inflight[r].inv.readers)
               THEN Finish(r, Resp("CreateInvitations", 400, "QuotaExceeded",
                                   NoBody))
               ELSE /\ inflight' =
                         [inflight EXCEPT ![r].pc = "loop",
                                          ![r].inv.currentActive = currentActive]
                    /\ UNCHANGED resp

\* One turn of the loop: INSERT INTO reader_invitations ..., then the email;
\* after the last reader, the 201 response
CreateInsert ==
    \E r \in Requests :
        /\ inflight[r].pc = "loop"
        /\ UNCHANGED <<now, projects, sessions, markers, markerSeq>>
        /\ LET req == inflight[r].inv
               token == Len(invitations) + 1
               row == NewInvitation(req.projectId, req.user, token, <<"B", "D">>,
                                    MaxTime + 1, "")
               created == Append(req.invitations, Len(invitations) + 1)
               sent == Append(req.sent, token)
           IN  /\ InsertAllowed(invitations, token, row.expires_at)
               /\ invitations' = Append(invitations, row)
               /\ IF inflight[r].id + 1 = req.readers
                  THEN Finish(r, RespMail("CreateInvitations", 201, "",
                                          [invitations |-> created,
                                           emailErrors |-> <<>>], sent))
                  ELSE /\ inflight' =
                            [inflight EXCEPT ![r].id = inflight[r].id + 1,
                                             ![r].inv.invitations = created,
                                             ![r].inv.sent = sent]
                       /\ UNCHANGED resp

NextRace ==
    \/ CreateSelectProject
    \/ CreateCount
    \/ CreateInsert

SpecRace == Init /\ [][NextRace]_vars

\* C22: every request that inserts has passed the check on the count it read
\* (currentActive + readers.length <= 15) and inserts without counting again,
\* so an insert takes a project above 15 active invitations exactly when
\* another request has inserted since the count was read; two overlapping
\* requests that both counted before either inserted do exceed the limit.
C22_LimitPassedOnlyInTheGap ==
    [][\A r \in Requests :
          (inflight[r].pc = "loop" /\ inflight'[r] # inflight[r]) =>
            LET req == inflight[r].inv
                active == Cardinality({i \in Ids :
                              /\ invitations[i].project_id = req.projectId
                              /\ invitations[i].status \in {"pending", "accepted"}
                              /\ invitations[i].expires_at > now})
            IN  /\ req.currentActive + req.readers <= 15
                /\ Len(invitations') = Len(invitations) + 1
                /\ active + 1 > 15 => active > req.currentActive + inflight[r].id]_vars

\* Both requests were answered 201 and project p1 has 16 active invitations
C22_Witness ==
    /\ resp.op = "CreateInvitations"
    /\ resp.status = 201
    /\ \A r \in Requests : inflight[r].pc = "idle"
    /\ Cardinality({i \in Ids :
           /\ invitations[i].project_id = "p1"
           /\ invitations[i].status \in {"pending", "accepted"}
           /\ invitations[i].expires_at > now}) > 15

(***************************************************************************)
(* A revoke between the statements of a GET /access/:token request         *)
(* (SpecRevokeRace): the steps of SpecOverlap, and the author's revoke,    *)
(* which is a single UPDATE.                                               *)
(***************************************************************************)
NextRevokeRace ==
    \/ Tick
    \/ CreateInvitations(OverlapInputs)
    \/ RevokeInvitation
    \/ AccessSelect
    \/ AccessExpire
    \/ AccessAccept
    \/ AccessSessionSelect
    \/ AccessSessionInsert

SpecRevokeRace == Init /\ [][NextRevokeRace]_vars

\* C23: once a RevokeInvitation has completed, no later step makes the
\* invitation accepted, also not the status write of a ResolveAccess that
\* read the invitation while it was pending.
C23_RevokedNeverAccepted ==
    [][\A i \in Ids :
          invitations[i].status = "revoked" =>
              invitations'[i].status # "accepted"]_vars

(***************************************************************************)
(* What the handlers leave alone (SpecFrame): the requests that write, and *)
(* the resend, one at a time.                                              *)
(***************************************************************************)
FrameInputs ==
    [users |-> {"u1"}, projects |-> {"p1"}, chapterLists |-> {<<"B", "D">>},
     sizes |-> {1}, expiries |-> {0, MaxTime + 1}, circleNames |-> {""},
     failSets |-> {{}}, collide |-> FALSE, maxRows |-> MaxInv]

NextFrame ==
    \/ Tick
    \/ CreateInvitations(FrameInputs)
    \/ ResolveAccess
    \/ ResendInvitation
    \/ RevokeInvitation
    \/ RenameCircle
    \/ ArchiveCircle
    \/ CreateMarker
    \/ UpdateMarker
    \/ DeleteMarker
    \/ UpdateProgress
    \/ UpdateNotes

SpecFrame == Init /\ [][NextFrame]_vars

\* C24: no step changes the access_token, chapters_accessible or expires_at
\* of an invitation that exists, and a ResendInvitation answered 200 sends the
\* token of an invitation as stored and changes no stored row.
C24_GrantIsImmutable ==
    [][/\ Len(invitations') >= Len(invitations)
       /\ \A i \in Ids :
             /\ invitations'[i].access_token = invitations[i].access_token
             /\ invitations'[i].chapters_accessible = invitations[i].chapters_accessible
             /\ invitations'[i].expires_at = invitations[i].expires_at
       /\ (resp'.op = "ResendInvitation" /\ resp'.status = 200) =>
             /\ UNCHANGED <<projects, invitations, sessions, markers, markerSeq>>
             /\ \E i \in Ids : resp'.sent = <<invitations[i].access_token>>]_vars

\* An invitation that was opened, renamed and archived was sent again
C24_Witness ==
    /\ resp.op = "ResendInvitation"
    /\ resp.status = 200
    /\ Len(invitations) = 1
    /\ invitations[1].status = "accepted"
    /\ invitations[1].circle_name = "c1"
    /\ invitations[1].archived
    /\ resp.sent = <<invitations[1].access_token>>

(***************************************************************************)
(* The invitation's last_activity_at (checked under Spec).                 *)
(***************************************************************************)
ReaderOps ==
    {"ResolveAccess", "CreateMarker", "UpdateMarker", "DeleteMarker",
     "UpdateProgress", "UpdateNotes"}

\* C25: after every reader request that succeeds (ResolveAccess,
\* CreateMarker, UpdateMarker, DeleteMarker, UpdateProgress, UpdateNotes), the
\* invitation of its token has last_activity_at equal to the time of the
\* request.
C25_ReaderActionTouchesActivity ==
    [][(resp'.op \in ReaderOps /\ resp'.status \in {200, 201}) =>
          \E i \in Ids : invitations'[i].last_activity_at = now]_vars

\* C26: the status in a ResolveAccess response with content is the status
\* the invitation has in the table when the request ends; the first access of
\* a pending invitation reports accepted.
C26_ResponseStatusIsStored ==
    [][(resp'.op = "ResolveAccess" /\ resp'.status = 200) =>
          resp'.body.status = invitations'[resp'.body.id].status]_vars

(***************************************************************************)
(* What a reader can still do with the token of a revoked or expired       *)
(* invitation (checked under Spec).                                        *)
(***************************************************************************)
\* C27: with the token of an invitation that is revoked or past expires_at,
\* UpdateMarker and DeleteMarker on its markers and UpdateProgress and
\* UpdateNotes still answer 200 and write the marker or the session, while
\* ResolveAccess and CreateMarker answer 403.
C27_OnlyTokenChecked ==
    [][resp'.op \in ReaderOps =>
       \A i \in Ids :
          (invitations[i].status = "revoked" \/ invitations[i].expires_at < now) =>
            /\ \A m \in markers :
                  m.invitation_id = i =>
                    /\ Apply(UpdateMarkerOut(m.id, TokenOf(i), "y")) =>
                          /\ resp'.status = 200
                          /\ \E m2 \in markers' :
                                m2.id = m.id /\ m2.marker_text = "y"
                    /\ Apply(DeleteMarkerOut(m.id, TokenOf(i))) =>
                          /\ resp'.status = 200
                          /\ \A m2 \in markers' : m2.id # m.id
            /\ Apply(UpdateProgressOut(TokenOf(i), "B", 50)) =>
                  /\ resp'.status = 200
                  /\ \A k \in 1..Len(sessions) :
                        sessions[k].invitation_id = i =>
                          /\ sessions'[k].last_chapter_id = "B"
                          /\ sessions'[k].completion_percentage = 50
            /\ Apply(UpdateNotesOut(TokenOf(i), "n")) =>
                  /\ resp'.status = 200
                  /\ \A k \in 1..Len(sessions) :
                        sessions[k].invitation_id = i => sessions'[k].notes = "n"
            /\ Apply(ResolveAccessOut(TokenOf(i))) => resp'.status = 403
            /\ \A ch \in MarkerChapterInputs, sc \in MarkerSceneInputs,
                  mk \in MarkerIdInputs, ty \in MarkerTypeInputs :
                  Apply(CreateMarkerOut(TokenOf(i), ch, sc, mk, ty, "x")) =>
                      resp'.status = 403 /\ markers' = markers]_vars

\* The marker of a revoked invitation was deleted with the invitation's token
C27_Witness ==
    /\ resp.op = "DeleteMarker"
    /\ resp.status = 200
    /\ Len(invitations) = 1
    /\ invitations[1].status = "revoked"
    /\ markerSeq = 1
    /\ markers = {}

(***************************************************************************)
(* Progress and notes before the first access (checked under Spec).        *)
(***************************************************************************)
\* C28: an UpdateProgress or UpdateNotes with the token of an invitation
\* that has no session answers 200, leaves the sessions table as it is (no
\* session is created, nothing is stored), sets the invitation's
\* last_activity_at to the time of the request, and a GetNotes for the token
\* right after it answers NotFound.
C28_NoSessionNothingStored ==
    [][resp'.op \in {"UpdateProgress", "UpdateNotes"} =>
       \A i \in Ids :
          SessionsOf(sessions, i) = {} =>
            ((\/ Apply(UpdateProgressOut(TokenOf(i), "B", 50))
              \/ Apply(UpdateNotesOut(TokenOf(i), "n"))) =>
                /\ resp'.status = 200
                /\ sessions' = sessions
                /\ invitations'[i].last_activity_at = now
                /\ (GetNotesOut(TokenOf(i)).resp.status)' = 404)]_vars

\* Notes were accepted for an invitation that was never opened
C28_Witness ==
    /\ resp.op = "UpdateNotes"
    /\ resp.status = 200
    /\ Len(invitations) = 1
    /\ sessions = <<>>
    /\ invitations[1].accepted_at = NULL
    /\ invitations[1].last_activity_at = now

(***************************************************************************)
(* A failing insert in the middle of a batch (checked under SpecBatch).    *)
(***************************************************************************)
\* The readers of a batch whose INSERT the table turns down: no expiresAt, or
\* a token that a row or an earlier reader of the batch has
FailingInserts(n, toks, expiresAt) ==
    {k \in 1..n :
        \/ expiresAt = NULL
        \/ \E i \in Ids : invitations[i].access_token = toks[k]
        \/ \E l \in 1..(k - 1) : toks[l] = toks[k]}

\* C29: in every reachable state and for every batch the owner can send,
\* when the insert for reader k of the batch is the first to fail, the
\* request answers with a server error, the rows of readers 1..k-1 are stored
\* and stay, their emails have gone out unless the delivery failed, and no
\* row is stored for readers k..n.
C29_NoRollback ==
    \A u \in BatchInputs.users, n \in BatchInputs.sizes,
       e \in BatchInputs.expiries :
    \A toks \in TokenDraws(n, TRUE), fails \in SUBSET (1..n) :
       (/\ projects["p1"].user_id = u
        /\ FailingInserts(n, toks, e) # {}
        /\ Cardinality(ActiveRows("p1")) + n <= 15) =>
         LET o == CreateInvitationsOut(u, "p1", <<"B", "D">>, n, toks, fails, e, "")
             k == Ascending(FailingInserts(n, toks, e))[1]
             mailed == (1..(k - 1)) \ fails
         IN  /\ o.resp.status = 500
             /\ Len(o.invitations) = Len(invitations) + k - 1
             /\ SubSeq(o.invitations, 1, Len(invitations)) = invitations
             /\ \A j \in 1..(k - 1) :
                   o.invitations[Len(invitations) + j].access_token = toks[j]
             /\ o.resp.sent = [j \in 1..Cardinality(mailed) |->
                                  toks[Ascending(mailed)[j]]]

\* A request ended with a server error after it had stored a row, which is
\* the last of the table, and sent its email
C29_Witness ==
    /\ resp.op = "CreateInvitations"
    /\ resp.status = 500
    /\ Len(resp.sent) = 1
    /\ Len(invitations) >= 1
    /\ invitations[Len(invitations)].access_token = resp.sent[1]
    /\ invitations[Len(invitations)].updated_at = now

(***************************************************************************)
(* What POST /markers leaves alone (checked under Spec).                   *)
(***************************************************************************)
\* C30: a CreateMarker changes no invitation's status or accepted_at and no
\* session; with the token of a pending invitation that is not past
\* expires_at it answers 201 and the invitation stays pending, and with the
\* token of an invitation past expires_at it answers 403 and writes nothing.
C30_MarkerLeavesStatus ==
    [][resp'.op = "CreateMarker" =>
       /\ sessions' = sessions
       /\ Len(invitations') = Len(invitations)
       /\ \A i \in Ids :
             /\ invitations'[i].status = invitations[i].status
             /\ invitations'[i].accepted_at = invitations[i].accepted_at
             /\ \A ch \in {"A", "B"} :
                   Apply(CreateMarkerOut(TokenOf(i), ch, "s", "m", "note", "x")) =>
                     /\ (/\ invitations[i].status = "pending"
                         /\ invitations[i].expires_at >= now) =>
                           /\ resp'.status = 201
                           /\ invitations'[i].status = "pending"
                           /\ SessionsOf(sessions', i) = {}
                     /\ invitations[i].expires_at < now =>
                           /\ resp'.status = 403
                           /\ invitations' = invitations
                           /\ markers' = markers]_vars

\* A marker was stored for an invitation that is still pending and has no
\* session
C30_Witness ==
    /\ resp.op = "CreateMarker"
    /\ resp.status = 201
    /\ Len(invitations) = 1
    /\ invitations[1].status = "pending"
    /\ invitations[1].accepted_at = NULL
    /\ sessions = <<>>
    /\ markers # {}

====
